---- MODULE Spec2Model ----
(***************************************************************************)
(* Host side of the CAN bootloader protocol (bootloader.py): the frame     *)
(* codec, the inbound dispatcher, the request engine _send, the page       *)
(* programmer program_page and the driver program.                         *)
(*                                                                         *)
(* The module is Python 3 (import queue, print()), so "/" is true          *)
(* division: pagesize / 4 and blocksize /= 2 yield floats.  A number is    *)
(* modelled by its value together with a flag saying that it is a float;   *)
(* the operations that reject a float (|, range, slice indices) end the    *)
(* call with a TypeError, which no "except BootloaderException" catches.   *)
(***************************************************************************)
EXTENDS Integers, Sequences, FiniteSets, TLC

\* ------------------------------------------------------------------ bounds
MaxInbox == 2
MaxPageInbox == 1
MaxCalls == 2
MaxAttempts == 2
MaxIdentify == 2

\* --------------------------------------------------------------- constants
REQUEST == 0
SUCCESS == 1
ERROR == 2
WRONG_NUMBER == 3

IDENTIFY == 1
SET_ADDRESS == 2
DATA == 3
START_APPLICATION == 4

BOOTLOADER_CAN_IDENTIFIER == 2047
FILTER_CAN_IDENTIFIER == 2046
START_OF_MESSAGE_MASK == 128
DefaultAttempts == 2

\* The board this session talks to, and another board on the same bus.
BoardId == 5
OtherBoardId == BoardId + 1

VARIABLES
    board,        \* ProgrammeableBoard: id, connected, pagesize, pages, ...
    msg_number,   \* Bootloader.msg_number
    msg_queue,    \* Bootloader.msg_queue: decoded messages, FIFO
    origin,       \* ghost, parallel to msg_queue: TRUE iff the message is a
                  \* SUCCESS the target produced for the request now in flight
    sent,         \* the frames handed to interface.send, in order, since the
                  \* operation under observation was called
    snd,          \* the activation of _send
    ncalls,       \* ghost: number of _send calls started
    pp,           \* the activation of program_page
    prog,         \* the activation of program, with the progress reports
    hist          \* ghost: total = calls that returned a response, pure = every
                  \* call so far did, base = number taken over by the latest
                  \* resynchronisation, since = increments of msg_number since,
                  \* subjects = subjects of the calls that ended

vars == <<board, msg_number, msg_queue, origin, sent, snd, ncalls, hist, pp, prog>>

\* What _send and the dispatcher never write.
outer == <<board, pp, prog>>

\* ------------------------------------------------------------- bit helpers
RECURSIVE BitOr(_, _)
BitOr(a, b) ==
    IF a = 0 THEN b
    ELSE IF b = 0 THEN a
    ELSE ((a % 2) + (b % 2) - ((a % 2) * (b % 2))) + 2 * BitOr(a \div 2, b \div 2)

\* ------------------------------------------------------------------- codec
Message(board_id, type, subject, number, data_counter, data) ==
    [board_id |-> board_id, type |-> type, subject |-> subject,
     number |-> number, data_counter |-> data_counter, data |-> data]

CanMessage(id, data, extended, rtr) ==
    [id |-> id, data |-> data, extended |-> extended, rtr |-> rtr]

\* Message.encode
Encode(m) ==
    CanMessage(BOOTLOADER_CAN_IDENTIFIER,
               <<m.board_id, BitOr(m.type * 64, m.subject), m.number, m.data_counter>>
                   \o m.data,
               FALSE, FALSE)

\* Message.decode raises BootloaderException on these frames.
DecodeRaises(can_message) ==
    Len(can_message.data) < 4 \/ can_message.extended \/ can_message.rtr

\* Mutant: the subject is cut to five bits.
DecodeNarrowSubject(can_message) ==
    Message(can_message.data[1],
            can_message.data[2] \div 64,
            can_message.data[2] % 32,
            can_message.data[3],
            can_message.data[4],
            SubSeq(can_message.data, 5, Len(can_message.data)))

\* Message.decode
Decode(can_message) ==
    Message(can_message.data[1],
            can_message.data[2] \div 64,
            can_message.data[2] % 64,
            can_message.data[3],
            can_message.data[4],
            SubSeq(can_message.data, 5, Len(can_message.data)))

\* Mutant: the filter does not look at the identifier.
FilterCheckAnyId(can_message) ==
    /\ can_message.extended = FALSE
    /\ can_message.rtr = FALSE

\* BootloaderFilter.check
FilterCheck(can_message) ==
    /\ can_message.extended = FALSE
    /\ can_message.rtr = FALSE
    /\ can_message.id = FILTER_CAN_IDENTIFIER

\* A frame as the target puts it on the bus: the layout of Encode, id 0x7FE.
TargetFrame(m) ==
    [Encode(m) EXCEPT !.id = FILTER_CAN_IDENTIFIER]

\* ------------------------------------------------------------------- _send
\* Mutant: the increment without the mask.
NextNumberUnmasked(n) == n + 1

\* self.msg_number = (self.msg_number + 1) & 0xff
NextNumber(n) == (n + 1) % 256

\* Mutant: the number of the target is taken over whatever the request carries.
ResyncAlways(message) == TRUE

\* if message.number == 0: the resynchronisation guard of WRONG_NUMBER
ResyncAllowed(message) == message.number = 0

\* if attempts > 0 and repeats >= attempts
AttemptsExhausted(attempts, repeats) == attempts > 0 /\ repeats >= attempts

\* One entry of the transmit log: the encoded frame and, ghost, the call that
\* sent it, whether it is a retransmission, whether the call awaits a response
\* and the place `at` of its payload (page, unit, block) when program_page
\* sent it.
Tx(message, call, retx, resp, at) ==
    [frame |-> Encode(message), call |-> call, retx |-> retx, resp |-> resp,
     at |-> at]

NoPlace == [page |-> -1, unit |-> -1, blk |-> 0]

\* The activation of _send.  message, response, attempts, repeats and result
\* are its locals; the other fields are ghost: msg_number on entry, whether
\* the returned SUCCESS answers this request, whether a WRONG_NUMBER was taken
\* over (and its number) or ignored, and how the last wait ended.
IdleSend ==
    [pc |-> "idle", message |-> Message(BoardId, REQUEST, 0, 0, 0, <<>>),
     response |-> FALSE, attempts |-> 0, repeats |-> 0, result |-> <<>>,
     entry_number |-> 0, result_origin |-> TRUE, resynced |-> FALSE,
     resync_number |-> 0, ignored |-> FALSE, last |-> "none", at |-> NoPlace]

\* The activation of _send once it has returned or raised: its locals are gone;
\* what is kept is the outcome and the ghost fields.
Ended(s, pc) ==
    [s EXCEPT !.pc = pc, !.message = Message(BoardId, REQUEST, 0, 0, 0, <<>>),
              !.attempts = 0, !.repeats = 0]

\* Ghost bookkeeping at the end of a call: its subject joins the subjects of
\* earlier requests; `advanced` says that msg_number was incremented, `ok`
\* that the call returned a response.
Done(h, s, advanced, ok) ==
    [h EXCEPT !.subjects = @ \cup {s.message.subject},
              !.since = IF advanced THEN @ + 1 ELSE @,
              !.total = IF ok THEN @ + 1 ELSE @,
              !.pure = @ /\ ok]

\* The state of the session, as a record, and its assignment.
Session ==
    [msg_number |-> msg_number, msg_queue |-> msg_queue, origin |-> origin,
     sent |-> sent, snd |-> snd, ncalls |-> ncalls, hist |-> hist]

Commit(st) ==
    /\ msg_number' = st.msg_number
    /\ msg_queue' = st.msg_queue
    /\ origin' = st.origin
    /\ sent' = st.sent
    /\ snd' = st.snd
    /\ ncalls' = st.ncalls
    /\ hist' = st.hist

\* msg_number after j sends: j times (msg_number + 1) & 0xff.
Advance(n, j) == (n + j) % 256

\* Lines 384-395, for a run of calls without response: each item (counter,
\* data, place) is transmitted once with the number of its turn, msg_number
\* advances with each, None is returned.  The session `st` after them.
SendForget(st, subject, items) ==
    LET n == Len(items)
        message(j) == Message(board.id, REQUEST, subject,
                              Advance(st.msg_number, j - 1),
                              items[j].counter, items[j].data)
        last == [IdleSend EXCEPT !.message = message(n),
                                 !.entry_number = Advance(st.msg_number, n - 1),
                                 !.attempts = DefaultAttempts,
                                 !.at = items[n].at]
    IN  IF n = 0 THEN st
        ELSE [st EXCEPT
                !.ncalls = @ + n,
                !.sent = @ \o [j \in 1..n |->
                                 Tx(message(j), st.ncalls + j, FALSE, FALSE,
                                    items[j].at)],
                !.msg_number = Advance(@, n),
                !.snd = Ended(last, "returned"),
                !.origin = [i \in 1..Len(@) |-> FALSE],
                !.hist = [@ EXCEPT !.subjects = @ \cup {subject},
                                   !.since = @ + n,
                                   !.pure = FALSE]]

Item(counter, data, at) == [counter |-> counter, data |-> data, at |-> at]

\* Lines 384-410: build the message; without response transmit once, advance
\* msg_number and return None; with response empty the queue and transmit the
\* first time.  The session `st` after these lines.
SendEnter(st, subject, data, counter, response, attempts, at) ==
    LET message == Message(board.id, REQUEST, subject, st.msg_number, counter, data)
        base == [IdleSend EXCEPT !.message = message, !.response = response,
                                 !.attempts = attempts,
                                 !.entry_number = st.msg_number, !.at = at]
    IN  IF ~response
        THEN SendForget(st, subject, <<Item(counter, data, at)>>)
        ELSE [st EXCEPT !.ncalls = @ + 1,
                        !.sent = Append(@, Tx(message, st.ncalls + 1, FALSE, TRUE, at)),
                        !.snd = [base EXCEPT !.pc = "wait"],
                        !.msg_queue = <<>>,
                        !.origin = <<>>]

\* Mutant: the number is incremented as soon as the SUCCESS is seen, before
\* the attempts are checked.
NumberAfterPassEarly(finished, exhausted, number) ==
    IF finished THEN NextNumber(number) ELSE number

\* Lines 458-464: msg_number after one pass of "while not finished" that
\* left the inner loop with `finished`, when `number` is in msg_number.
NumberAfterPass(finished, exhausted, number) ==
    IF exhausted THEN number
    ELSE IF finished THEN NextNumber(number)
    ELSE number

\* Lines 458-465: the end of one pass of "while not finished", entered after
\* the inner loop was left with `finished`, the message `message` in flight,
\* the number `number` in msg_number and `response_msg` the last message taken.
\* The queue is empty here on every path.
LoopTail(finished, message, number, response_msg, response_origin, s, h, how) ==
    LET repeats == s.repeats + 1
        exhausted == AttemptsExhausted(s.attempts, repeats)
        t == [s EXCEPT !.repeats = repeats, !.message = message, !.last = how]
    IN  /\ msg_number' = NumberAfterPass(finished, exhausted, number)
        /\ msg_queue' = <<>>
        /\ origin' = <<>>
        /\ IF exhausted
           THEN /\ snd' = Ended(t, "raised")
                /\ sent' = sent
                /\ hist' = Done(h, t, FALSE, FALSE)
           ELSE IF finished
           THEN /\ snd' = Ended([t EXCEPT !.result = <<response_msg>>,
                                          !.result_origin = response_origin],
                                "returned")
                /\ sent' = sent
                /\ hist' = Done(h, t, TRUE, TRUE)
           ELSE /\ snd' = [t EXCEPT !.pc = "wait"]
                /\ sent' = Append(sent, Tx(message, ncalls, TRUE, TRUE, s.at))
                /\ hist' = h

Waiting == snd.pc = "wait"

MatchingHead ==
    /\ Waiting
    /\ msg_queue # <<>>
    /\ Head(msg_queue).subject = snd.message.subject

\* Lines 415-430, 458-465: a SUCCESS for the subject of the request; the queue
\* is emptied of the answers to repeated transmits.
RecvSuccess ==
    /\ MatchingHead
    /\ Head(msg_queue).type = SUCCESS
    /\ LoopTail(TRUE, snd.message, msg_number, Head(msg_queue), Head(origin),
                snd, hist, "success")
    /\ UNCHANGED <<outer, ncalls>>

\* Mutant: the message in flight keeps its number.
RenumberedNot(message, number) == message

\* message.number = self.msg_number (line 438)
Renumbered(message, number) == [message EXCEPT !.number = number]

\* Lines 431-450, 458-461: WRONG_NUMBER; the number is taken over only when
\* the request carries number 0; after the sleep the queue is emptied.
RecvWrongNumber ==
    /\ MatchingHead
    /\ Head(msg_queue).type = WRONG_NUMBER
    /\ snd.attempts = 0 => snd.repeats < MaxAttempts
    /\ LET resync == ResyncAllowed(snd.message)
           number == IF resync THEN Head(msg_queue).number ELSE msg_number
           message == IF resync THEN Renumbered(snd.message, number)
                      ELSE snd.message
           s == IF resync
                THEN [snd EXCEPT !.resynced = TRUE, !.resync_number = number]
                ELSE [snd EXCEPT !.ignored = TRUE]
           h == IF resync
                THEN [hist EXCEPT !.base = number, !.since = 0]
                ELSE hist
       IN  LoopTail(FALSE, message, number, Head(msg_queue), FALSE, s, h,
                    "wrong_number")
    /\ UNCHANGED <<outer, ncalls>>

\* Lines 451-453: any other type for the subject of the request.
RecvFailure ==
    /\ MatchingHead
    /\ Head(msg_queue).type \notin {SUCCESS, WRONG_NUMBER}
    /\ snd' = Ended([snd EXCEPT !.last = "failure"], "raised")
    /\ hist' = Done(hist, snd, FALSE, FALSE)
    /\ msg_queue' = Tail(msg_queue)
    /\ origin' = Tail(origin)
    /\ UNCHANGED <<outer, msg_number, sent, ncalls>>

\* Lines 454-456: another subject: the message is dropped and the wait goes on.
RecvOld ==
    /\ Waiting
    /\ msg_queue # <<>>
    /\ Head(msg_queue).subject # snd.message.subject
    /\ msg_queue' = Tail(msg_queue)
    /\ origin' = Tail(origin)
    /\ UNCHANGED <<outer, msg_number, sent, snd, ncalls, hist>>

\* Lines 416-417, 458-461: queue.Empty after `timeout` seconds with nothing
\* queued.
Timeout ==
    /\ Waiting
    /\ msg_queue = <<>>
    /\ snd.attempts = 0 => snd.repeats < MaxAttempts
    /\ LoopTail(FALSE, snd.message, msg_number, <<>>, FALSE, snd, hist,
                "timeout")
    /\ UNCHANGED <<outer, ncalls>>

\* -------------------------------------------------------------- dispatcher
\* Subjects of the requests transmitted by calls before the latest one.
EarlierSubjects == hist.subjects

\* Bootloader._get_message behind BootloaderFilter.check: the frame is
\* queued only if the filter accepts it, it decodes, and it is for this board.
\* `fresh` (ghost) says whether the target produced it for the request in
\* flight.
GetMessage(can_message, fresh, cap) ==
    /\ Len(msg_queue) < cap
    /\ IF /\ FilterCheck(can_message)
          /\ ~DecodeRaises(can_message)
          /\ Decode(can_message).board_id = board.id
       THEN /\ msg_queue' = Append(msg_queue, Decode(can_message))
            /\ origin' = Append(origin, fresh)
       ELSE UNCHANGED <<msg_queue, origin>>
    /\ UNCHANGED <<outer, msg_number, sent, snd, ncalls, hist>>

\* What the bus can carry while a session runs: answers of the target to the
\* request in flight and late answers to earlier requests.
Answer(type, subject, number, data) ==
    TargetFrame(Message(BoardId, type, subject, number, START_OF_MESSAGE_MASK, data))

WrongNumbers == {255}

SessionFrames ==
    {Answer(t, s, 0, <<>>) : t \in {SUCCESS, ERROR}, s \in {IDENTIFY, DATA}}
    \cup {Answer(WRONG_NUMBER, s, n, <<>>) : s \in {IDENTIFY, DATA}, n \in WrongNumbers}

\* Frames the dispatcher has to drop: another identifier, extended, remote,
\* too short, for another board.  Their payload (170) tells them from the
\* answers of the target.
ForeignFrames ==
    { [Answer(SUCCESS, DATA, 0, <<170>>) EXCEPT !.id = BOOTLOADER_CAN_IDENTIFIER],
      [Answer(SUCCESS, DATA, 0, <<170>>) EXCEPT !.extended = TRUE],
      [Answer(SUCCESS, DATA, 0, <<170>>) EXCEPT !.rtr = TRUE],
      [Answer(SUCCESS, DATA, 0, <<>>) EXCEPT !.data = <<BoardId, 67, 0>>],
      TargetFrame(Message(OtherBoardId, SUCCESS, DATA, 0, START_OF_MESSAGE_MASK,
                          <<170>>)) }

\* The target answers requests it was sent: a frame carries the subject of the
\* request in flight or of an earlier one.  A SUCCESS is fresh when the target
\* produced it for the request in flight, and late when it answers an earlier
\* request; for the other types the ghost is not kept (FALSE).
Deliver(frames, cap) ==
    \E f \in frames, fresh \in BOOLEAN :
        /\ ncalls > 0
        /\ IF DecodeRaises(f) \/ Decode(f).type # SUCCESS
           THEN /\ ~fresh
                /\ ~DecodeRaises(f) =>
                      \/ Decode(f).subject \in EarlierSubjects
                      \/ Waiting /\ Decode(f).subject = snd.message.subject
           ELSE IF fresh
                THEN Waiting /\ Decode(f).subject = snd.message.subject
                ELSE Decode(f).subject \in EarlierSubjects
        /\ GetMessage(f, fresh, cap)

\* ------------------------------------------------------------------ client
\* A caller of _send: any subject, with or without response, any attempts.
ClientSend ==
    /\ snd.pc \in {"idle", "returned", "raised"}
    /\ ncalls < MaxCalls
    /\ \E subject \in {IDENTIFY, DATA} :
          \/ Commit(SendEnter([Session EXCEPT !.sent = <<>>], subject, <<>>,
                              START_OF_MESSAGE_MASK, FALSE, DefaultAttempts, NoPlace))
          \/ \E attempts \in 0..MaxAttempts :
                Commit(SendEnter([Session EXCEPT !.sent = <<>>], subject, <<>>,
                                 START_OF_MESSAGE_MASK, TRUE, attempts, NoPlace))
    /\ UNCHANGED outer

\* ------------------------------------------------------------ program_page
\* data[i * 4 : i * 4 + 4]
Slice(data, i) ==
    SubSeq(data, 4 * i + 1, IF 4 * i + 4 <= Len(data) THEN 4 * i + 4 ELSE Len(data))

\* Lines 233-238: the page as a list of numbers, filled up with 0xff.
Pad(data, pagesize) ==
    IF Len(data) < pagesize
    THEN data \o [i \in 1..(pagesize - Len(data)) |-> 255]
    ELSE data

\* Mutant: the first counter of a block carries the block size itself.
StartCounterSize(blocksize) == BitOr(START_OF_MESSAGE_MASK, blocksize)

\* counter = Message.START_OF_MESSAGE_MASK | (blocksize - 1)
StartCounter(blocksize) == BitOr(START_OF_MESSAGE_MASK, blocksize - 1)

\* Mutant: the block size is decremented instead of halved.
HalveByOne(blocksize) == blocksize - 1

\* blocksize /= 2: true division; the sizes it is applied to are even, so the
\* value is the integer quotient and the result is a float.
Halve(blocksize) == blocksize \div 2

\* Mutant: the page is written whatever the answer echoes.
PageMatchesAlways(answer, page) == TRUE

\* Lines 297-299: returned_page = answer.data[0] << 8 | answer.data[1]
PageMatches(answer, page) ==
    BitOr(answer.data[1] * 256, answer.data[2]) = page

Place(page, unit, blk) == [page |-> page, unit |-> unit, blk |-> blk]

\* The activation of program_page.  page, data, addressAlreadySet, remaining,
\* blocksize, offset and answer are its locals; bs_float and off_float say that
\* blocksize and offset are floats (remaining always is one).  Ghost: size is
\* len(data) as passed, blocks the blocks started, streakB and streakK the
\* block size before and the length of the current run of failed sends,
\* faults the number of failed sends, cause why the call raised, arg the
\* addressAlreadySet the caller passed.  A started block is kept with its
\* size and offset and with what addressAlreadySet was when it started (set),
\* whether a send had failed since the last acknowledged block (failed) and
\* whether no block had been acknowledged yet (first); acked are the blocks
\* whose last frame was acknowledged, with size and offset.
IdlePage ==
    [pc |-> "idle", page |-> 0, size |-> 0, data |-> <<>>,
     addressAlreadySet |-> FALSE, remaining |-> 0, blocksize |-> 0,
     bs_float |-> FALSE, offset |-> 0, off_float |-> FALSE, answer |-> <<>>,
     blocks |-> <<>>, streakB |-> 0, streakK |-> 0, faults |-> 0,
     cause |-> "none", arg |-> FALSE, acked |-> <<>>]

\* Lines 233-242
EnterPage(pagesize, page, data, addressAlreadySet) ==
    [IdlePage EXCEPT !.pc = "loop", !.page = page, !.size = Len(data),
                     !.data = Pad(data, pagesize),
                     !.addressAlreadySet = addressAlreadySet,
                     !.arg = addressAlreadySet,
                     !.remaining = pagesize \div 4,
                     !.blocksize = 64]

\* for k in range(blocksize - 2, 0, -1): the counters blocksize-2, ..., 1
MiddleCounters(blocksize) == [j \in 1..(blocksize - 2) |-> blocksize - 1 - j]

\* Lines 256-276: a block of more than one frame, up to the wait for the
\* answer to its last frame: the first frame with the start mark, the frames
\* of the for loop (i incremented before each), none awaiting a response, then
\* the frame with counter 0, which does.
StreamBlock(st, p, blk) ==
    LET i == p.offset
        middle == MiddleCounters(p.blocksize)
        first == Item(StartCounter(p.blocksize), Slice(p.data, i),
                      Place(p.page, i, blk))
        loop == [j \in 1..Len(middle) |->
                    Item(middle[j], Slice(p.data, i + j), Place(p.page, i + j, blk))]
        iLast == i + Len(middle) + 1
    IN  SendEnter(SendForget(st, DATA, <<first>> \o loop),
                  DATA, Slice(p.data, iLast), 0, TRUE, DefaultAttempts,
                  Place(p.page, iLast, blk))

Raise(p, pc, cause) == [p EXCEPT !.pc = pc, !.cause = cause]

\* Lines 250-276: clamp the block size and send the block, up to the wait for
\* the answer.  A float block size or offset ends the call with a TypeError
\* in "|" (line 261) or in the slice (lines 254, 262).
BlockStart(st, p) ==
    LET clamp == p.remaining < p.blocksize
        q == [p EXCEPT !.blocksize = IF clamp THEN p.remaining ELSE @,
                       !.bs_float = IF clamp THEN TRUE ELSE @]
        blk == Len(q.blocks) + 1
        r == [q EXCEPT !.pc = "data",
                       !.blocks = Append(@, [size |-> q.blocksize,
                                             offset |-> q.offset,
                                             set |-> q.addressAlreadySet,
                                             failed |-> q.streakK > 0,
                                             first |-> q.answer = <<>>])]
    IN  IF q.blocksize = 1
        THEN IF q.off_float
             THEN [st |-> st, pp |-> Raise(q, "type_error", "slice")]
             ELSE [st |-> SendEnter(st, DATA, Slice(q.data, q.offset),
                                    START_OF_MESSAGE_MASK, TRUE, DefaultAttempts,
                                    Place(q.page, q.offset, blk)),
                   pp |-> r]
        ELSE IF q.bs_float
             THEN [st |-> st, pp |-> Raise(q, "type_error", "or")]
             ELSE IF q.off_float
             THEN [st |-> st, pp |-> Raise(q, "type_error", "slice")]
             ELSE [st |-> StreamBlock(st, q, blk), pp |-> r]

\* Lines 296-300: the page echoed by the last answer.
PageEnd(p) ==
    IF Len(p.answer[1].data) < 2
    THEN Raise(p, "index_error", "echo")
    ELSE IF PageMatches(p.answer[1], p.page)
    THEN [p EXCEPT !.pc = "returned"]
    ELSE Raise(p, "raised", "page")

\* Mutant: the address is set before every block.
NeedsAddressAlways(addressAlreadySet) == TRUE

\* Line 246: if not addressAlreadySet
NeedsAddress(addressAlreadySet) == ~addressAlreadySet

\* Lines 244-248: the head of "while remaining > 0", up to the next wait.
LoopHead(st, p) ==
    IF ~(p.remaining > 0)
    THEN [st |-> st, pp |-> PageEnd(p)]
    ELSE IF NeedsAddress(p.addressAlreadySet)
    THEN [st |-> SendEnter(st, SET_ADDRESS,
                           <<p.page \div 256, p.page % 256, 0, p.offset>>,
                           START_OF_MESSAGE_MASK, TRUE, DefaultAttempts, NoPlace),
          pp |-> [p EXCEPT !.pc = "set_address"]]
    ELSE BlockStart(st, p)

\* Mutant: remaining counts blocks, not units.
RemainingAfterOne(remaining, blocksize) == remaining - 1

\* Line 278: remaining -= blocksize
RemainingAfter(remaining, blocksize) == remaining - blocksize

\* Lines 278-281: the block was acknowledged.
Acknowledged(p, answer) ==
    [p EXCEPT !.answer = answer,
              !.acked = Append(@, [size |-> p.blocksize, offset |-> p.offset]),
              !.remaining = RemainingAfter(@, p.blocksize),
              !.offset = @ + p.blocksize,
              !.off_float = @ \/ p.bs_float,
              !.addressAlreadySet = TRUE,
              !.streakK = 0,
              !.pc = "loop"]

\* Mutant: a failure at block size 1 is retried once more.
CanRetryAtOne(blocksize) == blocksize >= 1

\* Line 285: if blocksize > 1
CanRetry(blocksize) == blocksize > 1

\* Lines 283-294: a send raised BootloaderException.
Failed(p) ==
    IF CanRetry(p.blocksize)
    THEN [p EXCEPT !.blocksize = Halve(@),
                   !.bs_float = TRUE,
                   !.addressAlreadySet = FALSE,
                   !.streakB = IF p.streakK = 0 THEN p.blocksize ELSE @,
                   !.streakK = @ + 1,
                   !.faults = @ + 1,
                   !.pc = "loop"]
    ELSE [Raise(p, "raised", "send") EXCEPT !.faults = @ + 1]

\* program_page from its call to its first wait (or its end).
PageCall(st, pagesize, page, data, addressAlreadySet) ==
    LoopHead(st, EnterPage(pagesize, page, data, addressAlreadySet))

\* program_page from the end of a send to its next wait (or its end).
PageAfterSend(st, p) ==
    IF st.snd.pc = "returned"
    THEN IF p.pc = "set_address"
         THEN BlockStart(st, p)
         ELSE LoopHead(st, Acknowledged(p, st.snd.result))
    ELSE LET f == Failed(p)
         IN  IF f.pc = "loop" THEN LoopHead(st, f) ELSE [st |-> st, pp |-> f]

PageWaiting == pp.pc \in {"set_address", "data"}

PageEnded == pp.pc \in {"returned", "raised", "type_error", "index_error"}

PageResume ==
    /\ PageWaiting
    /\ snd.pc \in {"returned", "raised"}
    /\ LET r == PageAfterSend(Session, pp)
       IN  Commit(r.st) /\ pp' = r.pp
    /\ UNCHANGED <<board, prog>>

\* A caller of program_page: a page of the board, data of at most a page,
\* with the address set or not.
Image(n) == [i \in 1..n |-> i % 251]

PageNumbers == {258}

OtherPages == {1}

ShortLength == 5

PageData == {Image(ShortLength), Image(board.pagesize)}

ClientPage ==
    /\ pp.pc = "idle"
    /\ \E page \in PageNumbers, data \in PageData, addressAlreadySet \in BOOLEAN :
          LET r == PageCall(Session, board.pagesize, page, data, addressAlreadySet)
          IN  Commit(r.st) /\ pp' = r.pp
    /\ UNCHANGED <<board, prog>>

\* The answers of the target while a page is programmed.
Echo(page) == <<page \div 256, page % 256, 0, 0>>

PageFrames ==
    {Answer(t, SET_ADDRESS, 0, <<>>) : t \in {SUCCESS, ERROR}}
    \cup {Answer(SUCCESS, DATA, 0, Echo(page)) : page \in PageNumbers \cup OtherPages}
    \cup {Answer(ERROR, DATA, 0, <<>>)}
    \cup {Answer(WRONG_NUMBER, DATA, n, <<>>) : n \in WrongNumbers}

\* ----------------------------------------------------------------- program
IdentifyAttempts == 10

WAITING == 0
START == 1
IN_PROGRESS == 2
END == 3
\* Bootloader.ERROR (MessageType.ERROR has the name ERROR here)
ERROR_STATE == 4

\* One call of _report_progress: the state and the progress, a quotient kept
\* as numerator and denominator (0.0, the default, is 0 / 1).
Report(state, num, den) == [state |-> state, num |-> num, den |-> den]

\* The activation of program.  segments, segment_number, offset, i, pages and
\* addressSet are its locals; reports are the calls of _report_progress so
\* far; tries (ghost) counts the passes of identify's loop, cause says why
\* the call raised.
IdleProgram ==
    [pc |-> "idle", segments |-> <<>>, segment_number |-> 0, offset |-> 0,
     i |-> 0, pages |-> 0, addressSet |-> FALSE, reports |-> <<>>,
     tries |-> 0, cause |-> "none"]

\* Line 217: {0: 32, 1: 64, 2: 128, 3: 256}[response.data[1]]
PageSizeOf(code) ==
    CASE code = 0 -> 32 [] code = 1 -> 64 [] code = 2 -> 128 [] code = 3 -> 256

\* Lines 214-222: the board filled in from the data d of the answer, field by
\* field; an answer that is too short or names no page size ends identify
\* with an IndexError or KeyError, the fields assigned so far kept.
IdentifyFill(b, d) ==
    IF Len(d) < 1 THEN [board |-> b, error |-> "index_error"]
    ELSE LET b1 == [b EXCEPT !.bootloader_type = d[1] \div 16,
                             !.version = d[1] % 16]
         IN  IF Len(d) < 2 THEN [board |-> b1, error |-> "index_error"]
             ELSE IF d[2] \notin 0..3 THEN [board |-> b1, error |-> "key_error"]
             ELSE LET b2 == [b1 EXCEPT !.pagesize = PageSizeOf(d[2])]
                  IN  IF Len(d) < 4 THEN [board |-> b2, error |-> "index_error"]
                      ELSE [board |-> [b2 EXCEPT !.pages = d[3] * 256 + d[4],
                                                 !.connected = TRUE],
                            error |-> "none"]

\* Line 207
SendIdentify(st) ==
    SendEnter(st, IDENTIFY, <<>>, START_OF_MESSAGE_MASK, TRUE, IdentifyAttempts,
              NoPlace)

\* Line 327
RECURSIVE TotalSize(_)
TotalSize(segments) ==
    IF segments = <<>> THEN 0
    ELSE Len(Head(segments)) + TotalSize(Tail(segments))

\* Line 331: int(math.ceil(float(totalsize) / float(pagesize)))
PagesFor(totalsize, pagesize) == (totalsize + pagesize - 1) \div pagesize

\* data[from:to]
PySlice(data, from, to) ==
    SubSeq(data, from + 1, IF to <= Len(data) THEN to ELSE Len(data))

\* Lines 344-348 and 357-364: the head of "for i in range(pages)" for the
\* index g.i, up to the next wait: the next page is programmed from the
\* current segment, or, after the last page, END is reported and
\* START_APPLICATION sent.
ProgramLoop(st, b, p, g) ==
    IF g.i < g.pages
    THEN IF g.segment_number >= Len(g.segments)
         THEN [st |-> st, pp |-> p,
               prog |-> [g EXCEPT !.pc = "index_error", !.cause = "segment"]]
         ELSE LET data == g.segments[g.segment_number + 1]
                  r == PageCall(st, b.pagesize, g.i,
                                PySlice(data, g.offset, g.offset + b.pagesize),
                                g.addressSet)
              IN  [st |-> r.st, pp |-> r.pp, prog |-> [g EXCEPT !.pc = "page"]]
    ELSE [st |-> SendEnter(st, START_APPLICATION, <<>>, START_OF_MESSAGE_MASK,
                           TRUE, DefaultAttempts, NoPlace),
          pp |-> p,
          prog |-> [g EXCEPT !.pc = "start_app",
                             !.reports = Append(@, Report(END, 0, 1))]]

\* Mutant: the check lets an image of one page too many through.
ImageTooLargeLax(pages, b) == pages > b.pages + 1

\* Line 335: if pages > self.board.pages
ImageTooLarge(pages, b) == pages > b.pages

\* Lines 327-342: after identify, with the board b it filled in.
ProgramAfterIdentify(st, b, p, g) ==
    LET pages == PagesFor(TotalSize(g.segments), b.pagesize)
    IN  IF ImageTooLarge(pages, b)
        THEN [st |-> st, pp |-> p,
              prog |-> [g EXCEPT !.pc = "raised", !.cause = "too_large",
                                 !.pages = pages]]
        ELSE ProgramLoop(st, b, p,
                         [g EXCEPT !.pages = pages,
                                   !.reports = Append(@, Report(START, 0, 1))])

\* Mutant: program goes on whatever program_page raised.
PageReturnedAlways(p) == TRUE

\* Line 346: program_page returned; what it raises leaves program.
PageReturned(p) == p.pc = "returned"

\* Lines 349-355: after program_page; what it raised is not caught.
ProgramAfterPage(st, b, p, g) ==
    IF PageReturned(p)
    THEN LET data == g.segments[g.segment_number + 1]
             offset == g.offset + b.pagesize
             wrap == offset >= Len(data)
         IN  ProgramLoop(st, b, p,
                 [g EXCEPT !.offset = IF wrap THEN 0 ELSE offset,
                           !.segment_number = IF wrap THEN @ + 1 ELSE @,
                           !.addressSet = TRUE,
                           !.reports = Append(@, Report(IN_PROGRESS, g.i, g.pages)),
                           !.i = @ + 1])
    ELSE [st |-> st, pp |-> p, prog |-> [g EXCEPT !.pc = p.pc, !.cause = "page"]]

\* The images a caller of program hands over: lists of segments.
Bytes(first, n) == [i \in 1..n |-> (first + i) % 251]

Images ==
    { <<Bytes(0, 256)>>,
      <<Bytes(0, 3), Bytes(100, 2)>>,
      <<Bytes(0, 3), Bytes(100, 256)>> }

\* Lines 317-322: program up to the first wait of identify.
ClientProgram ==
    /\ prog.pc = "idle"
    /\ \E segments \in Images :
          prog' = [IdleProgram EXCEPT !.pc = "identify",
                                      !.segments = segments,
                                      !.reports = <<Report(WAITING, 0, 1)>>,
                                      !.tries = 1]
    /\ Commit(SendIdentify([Session EXCEPT !.sent = <<>>]))
    /\ UNCHANGED <<board, pp>>

\* Lines 204-222 and 324-348: identify sends again when _send raised; when it
\* returned the board is filled in and program goes on to its first page.
IdentifyResume ==
    /\ prog.pc = "identify"
    /\ snd.pc \in {"returned", "raised"}
    /\ IF snd.pc = "raised"
       THEN /\ prog.tries < MaxIdentify
            /\ Commit(SendIdentify(Session))
            /\ prog' = [prog EXCEPT !.tries = @ + 1]
            /\ UNCHANGED <<board, pp>>
       ELSE LET f == IdentifyFill(board, snd.result[1].data)
                r == ProgramAfterIdentify(Session, f.board, pp, prog)
            IN  /\ board' = f.board
                /\ IF f.error # "none"
                   THEN /\ prog' = [prog EXCEPT !.pc = f.error, !.cause = "identify"]
                        /\ UNCHANGED <<msg_number, msg_queue, origin, sent, snd,
                                       ncalls, hist, pp>>
                   ELSE Commit(r.st) /\ pp' = r.pp /\ prog' = r.prog

\* Lines 349-364: program from the end of program_page to the next wait.
ProgramResume ==
    /\ prog.pc = "page"
    /\ PageEnded
    /\ LET r == ProgramAfterPage(Session, board, pp, prog)
       IN  Commit(r.st) /\ pp' = r.pp /\ prog' = r.prog
    /\ UNCHANGED board

\* Lines 306-308, 364: start_app has ended, and program with it.
ProgramEnd ==
    /\ prog.pc = "start_app"
    /\ snd.pc \in {"returned", "raised"}
    /\ prog' = [prog EXCEPT !.pc = snd.pc,
                            !.cause = IF snd.pc = "raised" THEN "start_app" ELSE @]
    /\ UNCHANGED <<board, pp, msg_number, msg_queue, origin, sent, snd, ncalls, hist>>

\* The answers of the target while an image is programmed.
IdentifyAnswer(code, pages) ==
    Answer(SUCCESS, IDENTIFY, 0, <<21, code, pages \div 256, pages % 256>>)

BoardPages == {1, 2}

ProgramFrames ==
    {IdentifyAnswer(3, pages) : pages \in BoardPages}
    \cup {Answer(SUCCESS, s, 0, <<>>) : s \in {SET_ADDRESS, START_APPLICATION}}
    \cup {Answer(SUCCESS, DATA, 0, Echo(page)) : page \in {0, 1}}
    \cup {Answer(ERROR, DATA, 0, <<>>)}
    \cup {Answer(WRONG_NUMBER, DATA, n, <<>>) : n \in WrongNumbers}

\* ------------------------------------------------------------ specification
\* ProgrammeableBoard.__init__ and Bootloader.__init__
InitBoard ==
    [id |-> BoardId, connected |-> FALSE, bootloader_type |-> 0, version |-> 0,
     pages |-> 0, pagesize |-> 0]

InitHist == [total |-> 0, pure |-> TRUE, base |-> 0, since |-> 0, subjects |-> {}]

Init ==
    /\ board = InitBoard
    /\ msg_number = 0
    /\ msg_queue = <<>>
    /\ origin = <<>>
    /\ sent = <<>>
    /\ snd = IdleSend
    /\ ncalls = 0
    /\ hist = InitHist
    /\ pp = IdlePage
    /\ prog = IdleProgram

Next ==
    \/ ClientSend
    \/ RecvSuccess
    \/ RecvWrongNumber
    \/ RecvFailure
    \/ RecvOld
    \/ Timeout
    \/ Deliver(SessionFrames \cup ForeignFrames, MaxInbox)

Spec == Init /\ [][Next]_vars

\* program_page on a board that identify has found, with a page size of
\* identify's table; IDENTIFY was the one request so far.  Frames are let in
\* while a send waits: what arrives between two sends is emptied from the
\* queue by the next send that waits (lines 400-406) before it is looked at.
PageSizes == {128, 256}

InitPage ==
    /\ \E pagesize \in PageSizes :
          board = [InitBoard EXCEPT !.connected = TRUE, !.pagesize = pagesize,
                                    !.pages = 512]
    /\ msg_number = 1
    /\ msg_queue = <<>>
    /\ origin = <<>>
    /\ sent = <<>>
    /\ snd = Ended(IdleSend, "returned")
    /\ ncalls = 1
    /\ hist = [InitHist EXCEPT !.total = 1, !.since = 1, !.subjects = {IDENTIFY}]
    /\ pp = IdlePage
    /\ prog = IdleProgram

NextPage ==
    \/ ClientPage
    \/ PageResume
    \/ RecvSuccess
    \/ RecvWrongNumber
    \/ RecvFailure
    \/ RecvOld
    \/ Timeout
    \/ Waiting /\ Deliver(PageFrames, MaxPageInbox)

SpecPage == InitPage /\ [][NextPage]_vars

\* program_page when every send ends. A queued message is taken by the get
\* of line 415 and program_page goes on when _send has returned or raised.
\* That no send waits for ever is assumed, not derived: every get of line
\* 415 waits the full timeout again, so messages that keep arriving and are
\* skipped at lines 454-456 keep _send in its loop.
PageResumable == PageWaiting /\ snd.pc \in {"returned", "raised"}

SpecPageLive ==
    /\ SpecPage
    /\ WF_vars(RecvSuccess \/ RecvWrongNumber \/ RecvFailure \/ RecvOld)
    /\ []<>(~Waiting)
    \* weak fairness of PageResume, which is enabled exactly when PageResumable
    /\ ([]<>(~PageResumable) \/ []<><<PageResume>>_vars)

\* program on a fresh session; frames are let in while a send waits.
NextProgram ==
    \/ ClientProgram
    \/ IdentifyResume
    \/ ProgramResume
    \/ ProgramEnd
    \/ PageResume
    \/ RecvSuccess
    \/ RecvWrongNumber
    \/ RecvFailure
    \/ RecvOld
    \/ Timeout
    \/ Waiting /\ Deliver(ProgramFrames, MaxPageInbox)

SpecProgram == Init /\ [][NextProgram]_vars

\* The codec alone: a message (kept in snd.message) is encoded into the
\* transmit log, and the frame in the log is decoded into the queue.
CodecMessages ==
    {Message(b, t, s, n, c, d) :
        b \in {0, BoardId, 255}, t \in 0..3, s \in {0, 1, 42, 63},
        n \in {0, 255}, c \in {0, START_OF_MESSAGE_MASK, 255},
        d \in {<<>>, <<7>>, <<1, 2, 3, 255>>}}

InitCodec ==
    /\ board = InitBoard
    /\ msg_number = 0
    /\ msg_queue = <<>>
    /\ origin = <<>>
    /\ sent = <<>>
    /\ \E m \in CodecMessages : snd = [IdleSend EXCEPT !.message = m]
    /\ ncalls = 0
    /\ hist = InitHist
    /\ pp = IdlePage
    /\ prog = IdleProgram

CodecEncode ==
    /\ sent = <<>>
    /\ sent' = <<Tx(snd.message, 0, FALSE, FALSE, NoPlace)>>
    /\ UNCHANGED <<board, msg_number, msg_queue, origin, snd, ncalls, hist, pp, prog>>

CodecDecode ==
    /\ sent # <<>>
    /\ msg_queue = <<>>
    /\ ~DecodeRaises(sent[1].frame)
    /\ msg_queue' = <<Decode(sent[1].frame)>>
    /\ origin' = <<FALSE>>
    /\ UNCHANGED <<board, msg_number, sent, snd, ncalls, hist, pp, prog>>

NextCodec ==
    \/ CodecEncode
    \/ CodecDecode

SpecCodec == InitCodec /\ [][NextCodec]_vars

\* ------------------------------------------------------------ properties
\* The step of _send that takes a message of the request's subject and of
\* type `type` from the queue.
Takes(type) ==
    /\ MatchingHead
    /\ Head(msg_queue).type = type
    /\ snd' # snd

\* C1: whenever _send, waiting on any of its permitted transmissions, takes a
\* SUCCESS of the request's subject from the queue, it empties the queue,
\* advances msg_number by one modulo 256 and returns that message; it does
\* not raise.
C1_SuccessReturns ==
    [][Takes(SUCCESS) =>
          /\ snd'.pc = "returned"
          /\ snd'.result = <<Head(msg_queue)>>
          /\ msg_queue' = <<>>
          /\ msg_number' = (msg_number + 1) % 256]_vars

\* C2 as stated: whenever _send has raised BootloaderException, msg_number has
\* the value it had when the call was entered.
C2_RaiseKeepsNumber ==
    snd.pc = "raised" => msg_number = snd.entry_number

\* C2 amended: whenever _send has raised BootloaderException, msg_number has
\* the value it had when the call was entered, unless a WRONG_NUMBER was taken
\* over during the call (request number 0); then it is the number that
\* WRONG_NUMBER carried.
C2_RaiseKeepsNumberOrResync ==
    snd.pc = "raised" =>
        msg_number = IF snd.resynced THEN snd.resync_number ELSE snd.entry_number

\* A call that took over the number of the target and then raised.
C2_Witness ==
    /\ snd.pc = "raised"
    /\ snd.resynced
    /\ msg_number # snd.entry_number

\* C3 as stated: from a fresh session, after N calls of _send with response
\* that each returned a response (and no other call), msg_number = N mod 256.
C3_NumberIsCount ==
    (hist.pure /\ ~Waiting) => msg_number = hist.total % 256

\* C3 amended: msg_number = (R + N) mod 256, where R is the number taken over
\* by the latest WRONG_NUMBER resynchronisation (0 if there was none) and N
\* the number of sends that advanced msg_number since; with no
\* resynchronisation and only calls that returned a response, N mod 256.
C3_NumberIsBasePlusCount ==
    /\ msg_number = (hist.base + hist.since) % 256
    /\ (hist.pure /\ ~Waiting /\ hist.base = 0 /\ hist.since = hist.total)
           => msg_number = hist.total % 256

\* Two calls returned a response, the number wrapped from 255 to 0 on the way.
C3_Witness ==
    /\ hist.pure
    /\ hist.total = 2
    /\ hist.base = 255
    /\ msg_number = 0
    /\ snd.pc = "returned"

\* C4: taking a WRONG_NUMBER of the request's subject sets msg_number to the
\* number it carries when the request in flight has number 0, and leaves
\* msg_number as it is when the request has any other number.
C4_ResyncOnlyAtZero ==
    [][Takes(WRONG_NUMBER) =>
          msg_number' = IF snd.message.number = 0
                        THEN Head(msg_queue).number
                        ELSE msg_number]_vars

\* One call took over the number of a WRONG_NUMBER (request number 0) and
\* then ignored a second one (request number no longer 0).
C4_Witness ==
    /\ snd.resynced
    /\ snd.ignored
    /\ msg_number = snd.resync_number
    /\ msg_number # 0

\* C5: a response returned by _send was produced by the target for the
\* request of this call, never for an earlier request.
C5_NoStaleResponse ==
    (snd.pc = "returned" /\ snd.result # <<>>) => snd.result_origin

\* The entries of the transmit log that belong to block b of the page, with
\* and without the retransmissions made by _send.
BlockFrames(b) == SelectSeq(sent, LAMBDA e : e.at.blk = b)

BlockFirst(b) == SelectSeq(sent, LAMBDA e : e.at.blk = b /\ ~e.retx)

Subject(e) == e.frame.data[2] % 64

Counter(e) == e.frame.data[4]

Payload(e) == SubSeq(e.frame.data, 5, Len(e.frame.data))

\* The frames F are the block of size B at unit offset O of the padded page.
Framed(F, B, O) ==
    /\ Len(F) = B
    /\ \A k \in 0..(B - 1) :
          /\ Subject(F[k + 1]) = DATA
          /\ Counter(F[k + 1]) = IF k = 0 THEN 128 + (B - 1) ELSE B - 1 - k
          /\ Payload(F[k + 1]) = SubSeq(pp.data, 4 * (O + k) + 1, 4 * (O + k) + 4)
          /\ F[k + 1].resp = (k = B - 1)

\* C6 as stated: for every block of size B >= 2 streamed by program_page at
\* unit offset O, exactly B DATA frames are emitted, with the counters
\* 0x80|(B-1), B-2, ..., 1, 0 in order, the k-th carrying the page bytes
\* [(O+k)*4, (O+k)*4+4), only the last awaiting a response.
C6_BlockFraming ==
    \A b \in 1..Len(pp.blocks) :
        pp.blocks[b].size >= 2 =>
            Framed(BlockFrames(b), pp.blocks[b].size, pp.blocks[b].offset)

\* C6 amended: the B frames are the first transmissions of the block; _send
\* may transmit the last frame (counter 0) again while it waits for the
\* answer, and every further frame of the block repeats the counter and the
\* payload of that last frame.
C6_BlockFramingOnce ==
    \A b \in 1..Len(pp.blocks) :
        pp.blocks[b].size >= 2 =>
            LET F == BlockFirst(b)
                A == BlockFrames(b)
            IN  /\ Framed(F, pp.blocks[b].size, pp.blocks[b].offset)
                /\ SubSeq(A, 1, Len(F)) = F
                /\ \A j \in (Len(F) + 1)..Len(A) :
                      /\ A[j].retx
                      /\ Subject(A[j]) = DATA
                      /\ Counter(A[j]) = 0
                      /\ Payload(A[j]) = Payload(F[Len(F)])

\* A block of 64 frames was streamed and its last frame transmitted twice.
C6_Witness ==
    /\ Len(pp.blocks) = 1
    /\ pp.blocks[1].size = 64
    /\ Len(BlockFrames(1)) = 65

RECURSIVE Pow2(_)
Pow2(k) == IF k = 0 THEN 1 ELSE 2 * Pow2(k - 1)

\* C7: when a send of program_page fails (BootloaderException) at a block size
\* above 1, the call goes on and the block size is floor(B / 2^k), at least 1,
\* where B > 1 was the size before the run of failures and k is the length of
\* the run; when a send fails at block size 1, the exception is propagated.
C7_Backoff ==
    [][(PageWaiting /\ snd.pc = "raised" /\ pp' # pp) =>
          IF pp.blocksize = 1
          THEN pp'.pc = "raised" /\ pp'.cause = "send" /\ pp'.blocksize = 1
          ELSE /\ pp'.pc = "set_address"
               /\ pp'.streakK = pp.streakK + 1
               /\ pp'.streakB > 1
               /\ pp'.streakB = (IF pp.streakK = 0 THEN pp.blocksize ELSE pp.streakB)
               /\ pp'.blocksize = pp'.streakB \div Pow2(pp'.streakK)
               /\ pp'.blocksize >= 1]_vars

\* Six failures in a row brought the block size from 64 to 1, and the seventh
\* was propagated.
C7_Witness ==
    /\ pp.pc = "raised"
    /\ pp.cause = "send"
    /\ pp.streakB = 64
    /\ pp.streakK = 6
    /\ pp.faults = 7

\* The page number in the first two data bytes of a response, big-endian.
EchoedPage(m) == m.data[1] * 256 + m.data[2]

\* C8: program_page has returned normally only if the page number echoed by
\* the SUCCESS taken for the last block is the requested page; when the whole
\* page was acknowledged and the echo differs, the call has raised.
C8_PageEcho ==
    /\ pp.pc = "returned" =>
          /\ pp.remaining = 0
          /\ pp.answer[1].type = SUCCESS
          /\ EchoedPage(pp.answer[1]) = pp.page
    /\ (PageEnded /\ pp.remaining = 0 /\ EchoedPage(pp.answer[1]) # pp.page) =>
          pp.pc = "raised" /\ pp.cause = "page"

\* The page was acknowledged with the number of another page.
C8_Witness ==
    /\ pp.pc = "raised"
    /\ pp.cause = "page"
    /\ pp.remaining = 0
    /\ EchoedPage(pp.answer[1]) \in OtherPages

DataFrames == SelectSeq(sent, LAMBDA e : Subject(e) = DATA)

\* C9, for the calls in which no send failed and nothing was retransmitted:
\* when program_page called with len(data) < pagesize has ended, it has
\* transmitted exactly pagesize/4 DATA frames, and the payload bytes at page
\* indexes >= len(data) are 0xFF.
C9_PaddingLaw ==
    (/\ PageEnded
     /\ pp.size < board.pagesize
     /\ pp.faults = 0
     /\ \A j \in 1..Len(sent) : ~sent[j].retx) =>
        /\ Len(DataFrames) = board.pagesize \div 4
        /\ \A j \in 1..Len(DataFrames) :
              \A c \in 1..4 :
                  4 * DataFrames[j].at.unit + c > pp.size =>
                      Payload(DataFrames[j])[c] = 255

RECURSIVE Concatenation(_)
Concatenation(segments) ==
    IF segments = <<>> THEN <<>>
    ELSE Head(segments) \o Concatenation(Tail(segments))

\* C10: when program() has returned, the DATA frames it transmitted carry, at
\* every position of pages 0..pages-1, the byte of the concatenation of the
\* segments at that position, and 0xFF behind the end of the concatenation;
\* every position is carried by a frame.
C10_WritesConcatenation ==
    prog.pc = "returned" =>
        LET image == Concatenation(prog.segments)
            Position(e, c) == e.at.page * board.pagesize + 4 * e.at.unit + c
        IN  /\ \A j \in 1..Len(DataFrames) : \A c \in 1..4 :
                  Payload(DataFrames[j])[c] =
                      IF Position(DataFrames[j], c) <= Len(image)
                      THEN image[Position(DataFrames[j], c)]
                      ELSE 255
            /\ \A q \in 1..(prog.pages * board.pagesize) :
                  \E j \in 1..Len(DataFrames) : \E c \in 1..4 :
                      Position(DataFrames[j], c) = q

\* C11: when the image needs more pages than the board reports, program()
\* raises (Programsize exceeds available Flash) right after identify, and the
\* frames transmitted in that run are IDENTIFY requests only: no SET_ADDRESS,
\* no DATA, no START_APPLICATION.
C11_TooLargeSendsNothing ==
    (/\ board.connected
     /\ prog.pc \notin {"idle", "identify"}
     /\ (TotalSize(prog.segments) + board.pagesize - 1) \div board.pagesize
            > board.pages) =>
        /\ prog.pc = "raised"
        /\ prog.cause = "too_large"
        /\ \A j \in 1..Len(sent) : Subject(sent[j]) = IDENTIFY

\* An image of two pages was refused by a board of one page.
C11_Witness ==
    /\ prog.pc = "raised"
    /\ prog.cause = "too_large"
    /\ prog.pages = 2
    /\ board.pages = 1
    /\ sent # <<>>

\* C12: whenever program() has ended with a BootloaderException (image too
\* large, page mismatch, a failed send of program_page or of
\* START_APPLICATION), the last progress report it made is ERROR.
C12_ErrorReported ==
    prog.pc = "raised" =>
        /\ prog.reports # <<>>
        /\ prog.reports[Len(prog.reports)].state = ERROR_STATE

\* A frame the inbox may take a message from.
Acceptable(f) ==
    /\ ~f.extended
    /\ ~f.rtr
    /\ f.id = 2046
    /\ Len(f.data) >= 4
    /\ f.data[1] = board.id

\* C13: every message in the inbox has the board id of the session and was
\* decoded from a frame that is non-extended, non-RTR, has id 0x7FE and at
\* least 4 data bytes; no message in the inbox comes from a frame that fails
\* one of these conditions.
C13_InboxFiltered ==
    \A i \in 1..Len(msg_queue) :
        /\ msg_queue[i].board_id = board.id
        /\ \E f \in SessionFrames : Acceptable(f) /\ Decode(f) = msg_queue[i]
        /\ \A f \in SessionFrames \cup ForeignFrames :
              (~Acceptable(f) /\ Len(f.data) >= 4) => Decode(f) # msg_queue[i]

\* The inbox holds two messages while a request waits.
C13_Witness ==
    /\ Waiting
    /\ Len(msg_queue) = 2

\* C14: for a message with board_id, number and data_counter in 0..255, type
\* in 0..3, subject in 0..63 and 0 to 4 payload bytes, decode(encode(m)) has
\* the six field values of m; the second byte of the frame is
\* (type << 6) | subject and decodes to the same type and subject.
C14_CodecRoundTrip ==
    /\ sent # <<>> =>
          /\ sent[1].frame.data[2] = snd.message.type * 64 + snd.message.subject
          /\ Len(sent[1].frame.data) = 4 + Len(snd.message.data)
    /\ msg_queue # <<>> =>
          /\ msg_queue[1].board_id = snd.message.board_id
          /\ msg_queue[1].type = snd.message.type
          /\ msg_queue[1].subject = snd.message.subject
          /\ msg_queue[1].number = snd.message.number
          /\ msg_queue[1].data_counter = snd.message.data_counter
          /\ msg_queue[1].data = snd.message.data

\* A WRONG_NUMBER message with subject 63 and four payload bytes came back.
C14_Witness ==
    /\ msg_queue # <<>>
    /\ snd.message.type = 3
    /\ snd.message.subject = 63
    /\ Len(snd.message.data) = 4
    /\ msg_queue[1] = snd.message

\* C15: when _send (attempts = n > 0) has raised "No response", the wait
\* that came before the raise ended by a timeout, and no wait of the call
\* was ended by a message of the request's subject (a WRONG_NUMBER taken over
\* or ignored); "Failure" raised on another type is not meant.
C15_NoResponseAfterTimeouts ==
    (snd.pc = "raised" /\ snd.last # "failure") =>
        /\ snd.last = "timeout"
        /\ ~snd.resynced
        /\ ~snd.ignored

\* C16: every frame _send transmits carries the value msg_number has at the
\* moment of the transmission: a first transmission the number of the entry
\* (a send without response increments it afterwards), a retransmission the
\* number then current, which after a resynchronisation at number 0 is the
\* number of the WRONG_NUMBER answer.
C16_FramesCarryNumber ==
    [][sent' # sent =>
          LET e == sent'[Len(sent')]
          IN  e.frame.data[3] = IF e.resp THEN msg_number' ELSE msg_number]_vars

\* The request was sent again with the number taken over from the target.
C16_Witness ==
    /\ Waiting
    /\ snd.resynced
    /\ sent # <<>>
    /\ sent[Len(sent)].retx
    /\ sent[Len(sent)].frame.data[3] = snd.resync_number
    /\ snd.resync_number # snd.entry_number
    /\ msg_number = snd.resync_number

\* The place in the transmit log of the first frame of block b.
FirstOfBlock(b) ==
    CHOOSE j \in 1..Len(sent) :
        sent[j].at.blk = b /\ \A i \in 1..(j - 1) : sent[i].at.blk # b

\* C17: the DATA frames of a block of program_page directly follow a
\* SET_ADDRESS request with payload [page >> 8, page & 0xFF, 0, offset]
\* exactly when addressAlreadySet is false as the block starts; it is false
\* on the first block if the caller passed false and on a block started after
\* a failed send, and true on a block that follows an acknowledged block
\* without a failure in between.
C17_AddressBeforeBlock ==
    \A b \in 1..Len(pp.blocks) :
        LET blk == pp.blocks[b]
            j == FirstOfBlock(b)
        IN  /\ blk.set = (IF blk.failed THEN FALSE
                          ELSE IF blk.first THEN pp.arg ELSE TRUE)
            /\ IF blk.set
               THEN j = 1 \/ Subject(sent[j - 1]) # SET_ADDRESS
               ELSE /\ j > 1
                    /\ Subject(sent[j - 1]) = SET_ADDRESS
                    /\ Payload(sent[j - 1]) =
                          <<pp.page \div 256, pp.page % 256, 0, blk.offset>>

\* The caller had set the address, the block of 64 frames went out without
\* SET_ADDRESS and failed; the single frame sent after the backoff follows a
\* SET_ADDRESS.
C17_Witness ==
    /\ Len(pp.blocks) = 2
    /\ pp.blocks[1].set
    /\ pp.blocks[1].size = 64
    /\ ~pp.blocks[2].set
    /\ pp.blocks[2].size = 1
    /\ Subject(sent[FirstOfBlock(2) - 1]) = SET_ADDRESS

\* The progress reports of a complete run over `pages` pages.
AllReports(pages) ==
    <<Report(0, 0, 1), Report(1, 0, 1)>>
    \o [i \in 1..pages |-> Report(2, i - 1, pages)]
    \o <<Report(3, 0, 1)>>

\* C18: the progress reports of program() are, in order, WAITING, START,
\* IN_PROGRESS once per page for i = 0..pages-1, END (a run that fails stops
\* inside this sequence); SET_ADDRESS and DATA frames are transmitted only
\* after identify succeeded; START_APPLICATION is transmitted only after END,
\* after all SET_ADDRESS and DATA frames, when program_page has returned for
\* every page.
C18_ProgramOrder ==
    /\ Len(prog.reports) <= prog.pages + 3
    /\ prog.reports = SubSeq(AllReports(prog.pages), 1, Len(prog.reports))
    /\ (\E j \in 1..Len(sent) : Subject(sent[j]) # IDENTIFY) =>
          /\ board.connected
          /\ Len(prog.reports) >= 2
          /\ Subject(sent[1]) = IDENTIFY
    /\ \A j \in 1..Len(sent) :
          Subject(sent[j]) = START_APPLICATION =>
              /\ Len(prog.reports) = prog.pages + 3
              /\ \A k \in 1..Len(sent) :
                    Subject(sent[k]) \in {SET_ADDRESS, DATA} => k < j
              /\ prog.pages > 0 => pp.pc = "returned"
              /\ \A i \in 0..(prog.pages - 1) :
                    \E k \in 1..Len(sent) :
                        /\ Subject(sent[k]) = DATA
                        /\ sent[k].at.page = i
                        /\ Counter(sent[k]) = 0
    /\ prog.pc \in {"start_app", "returned"} =>
          \E j \in 1..Len(sent) : Subject(sent[j]) = START_APPLICATION

\* An image of two pages was programmed and the application started.
C18_Witness ==
    /\ prog.pc = "returned"
    /\ prog.pages = 2
    /\ Len(prog.reports) = 5
    /\ Subject(sent[Len(sent)]) = START_APPLICATION

\* The blocks cover the units 0..n-1 once, contiguously, in increasing order.
Covers(blocks, n) ==
    /\ blocks # <<>>
    /\ blocks[1].offset = 0
    /\ \A i \in 1..(Len(blocks) - 1) :
          blocks[i + 1].offset = blocks[i].offset + blocks[i].size
    /\ blocks[Len(blocks)].offset + blocks[Len(blocks)].size = n
    /\ \A i \in 1..Len(blocks) : blocks[i].size >= 1

\* C19: throughout program_page offset + remaining = pagesize / 4 and the
\* block size never increases; when the call returns normally, the blocks
\* whose last frame was acknowledged cover the units 0..pagesize/4-1 of the
\* padded page exactly once, contiguously and in increasing offset order.
C19_Coverage ==
    [][/\ pp'.pc # "idle" =>
             pp'.offset + pp'.remaining = board.pagesize \div 4
       /\ (pp.pc # "idle" /\ pp'.pc # "idle") => pp'.blocksize <= pp.blocksize
       /\ pp'.pc = "returned" => Covers(pp'.acked, board.pagesize \div 4)]_vars

\* A page of 256 bytes was written by one acknowledged block of 64 units.
C19_Witness ==
    /\ pp.pc = "returned"
    /\ pp.remaining = 0
    /\ pp.offset = 64
    /\ Len(pp.acked) = 1
    /\ pp.acked[1].size = 64

====
